---- MODULE Spec2Model ----
(***************************************************************************)
(* Model of the ADTS stream reader (src/main.rs): the startcode scanner    *)
(* seek_startcode/find_startcode, the header decoder peek_header and the   *)
(* frame walk of main, over a byte file with a read/seek position.         *)
(***************************************************************************)
EXTENDS Integers, Naturals, Sequences, FiniteSets, TLC

VARIABLES
    file,      \* the bytes of the input file (never written)
    offset,    \* opts.offset, the command-line start offset
    pos,       \* the position of the file handle
    pc,        \* where main is: start, scan, found, peek, advance, exit
    startcode, \* value returned by seek_startcode, -1 while there is none
    err,       \* kind of the io::Error a call returned, "" while there is none
    failed,    \* the call whose failure made main exit, "" while running
    header,    \* the header returned by the last peek_header
    peekAt,    \* position of the file at entry of the last peek_header, -1 before
    prev,      \* position and length printed for the last reported header
    fields     \* the field values packed into the first header of the file

vars == <<file, offset, pos, pc, startcode, err, failed, header, peekAt, prev, fields>>

----------------------------------------------------------------------------
(* Bounds of the input families *)
MaxNoise == 15
MaxGap == 5
MaxTail == 9
MaxOffset == 2
MaxPayload == 2

(* Program constants *)
ADTS_HDR_MIN_LEN == 7
ADTS_HDR_MAX_LEN == 9

NoneIdx == 0 - 1

Max(a, b) == IF a > b THEN a ELSE b

RECURSIVE Pow2(_)
Pow2(n) == IF n = 0 THEN 1 ELSE 2 * Pow2(n - 1)

----------------------------------------------------------------------------
(* std::io on the file handle *)

\* Read::read_exact of n bytes at position p: all n bytes, or UnexpectedEof
\* with the position left at the end of what could be read.
read_exact(f, p, n) ==
    IF p + n <= Len(f)
    THEN [ok |-> TRUE, buf |-> SubSeq(f, p + 1, p + n), pos |-> p + n, err |-> ""]
    ELSE [ok |-> FALSE, buf |-> <<>>, pos |-> Max(p, Len(f)), err |-> "UnexpectedEof"]

\* Seek::seek(SeekFrom::Current(d)): positions past the end are allowed,
\* a negative position is InvalidInput and leaves the position alone.
seek_current(p, d) ==
    IF p + d < 0
    THEN [ok |-> FALSE, pos |-> p, err |-> "InvalidInput"]
    ELSE [ok |-> TRUE, pos |-> p + d, err |-> ""]

----------------------------------------------------------------------------
(* Startcode scanner *)

is_startcode_loose(b0, b1) == b0 = 255

\* the closure of find_startcode: b[0] == 0xFF && (b[1] & 0xF0) == 0xF0
is_startcode(b0, b1) == (b0 = 255) /\ ((b1 \div 16) * 16 = 240)

\* buf.windows(2).position(..): index of the first matching pair, or None
find_startcode(buf) ==
    LET hits == {i \in 0..(Len(buf) - 2) : is_startcode(buf[i + 1], buf[i + 2])}
    IN  IF hits = {} THEN NoneIdx
        ELSE CHOOSE i \in hits : \A j \in hits : i <= j

seek_startcode_iter_notfound(f, p) ==
    LET rd == read_exact(f, p, ADTS_HDR_MAX_LEN) IN
    IF ~rd.ok
    THEN [kind |-> "err", pos |-> rd.pos,
          err |-> IF p + 2 <= Len(f) THEN rd.err ELSE "NotFound", ret |-> NoneIdx]
    ELSE LET n == find_startcode(rd.buf) IN
         IF n = NoneIdx
         THEN LET sk == seek_current(rd.pos, ADTS_HDR_MAX_LEN - 4) IN
              IF sk.ok
              THEN [kind |-> "continue", pos |-> sk.pos, err |-> "", ret |-> NoneIdx]
              ELSE [kind |-> "err", pos |-> sk.pos, err |-> sk.err, ret |-> NoneIdx]
         ELSE LET sk == seek_current(rd.pos, 0 - (ADTS_HDR_MAX_LEN - n)) IN
              IF sk.ok
              THEN [kind |-> "return", pos |-> sk.pos, err |-> "", ret |-> sk.pos]
              ELSE [kind |-> "err", pos |-> sk.pos, err |-> sk.err, ret |-> NoneIdx]

\* One iteration of the loop of seek_startcode with the file at position p:
\* read a window, then fail (the ? operators), continue or return.
seek_startcode_iter(f, p) ==
    LET rd == read_exact(f, p, ADTS_HDR_MAX_LEN) IN
    IF ~rd.ok
    THEN [kind |-> "err", pos |-> rd.pos, err |-> rd.err, ret |-> NoneIdx]
    ELSE LET n == find_startcode(rd.buf) IN
         IF n = NoneIdx
         THEN LET sk == seek_current(rd.pos, ADTS_HDR_MAX_LEN - 4) IN
              IF sk.ok
              THEN [kind |-> "continue", pos |-> sk.pos, err |-> "", ret |-> NoneIdx]
              ELSE [kind |-> "err", pos |-> sk.pos, err |-> sk.err, ret |-> NoneIdx]
         ELSE LET sk == seek_current(rd.pos, 0 - (ADTS_HDR_MAX_LEN - n)) IN
              IF sk.ok
              THEN [kind |-> "return", pos |-> sk.pos, err |-> "", ret |-> sk.pos]
              ELSE [kind |-> "err", pos |-> sk.pos, err |-> sk.err, ret |-> NoneIdx]

----------------------------------------------------------------------------
(* Header decoder *)

\* bit i (0 = most significant bit of the first byte) of a byte buffer
Bit(buf, i) == (buf[(i \div 8) + 1] \div Pow2(7 - (i % 8))) % 2

\* BitReader::read_u8/read_u16/read_bool: n bits from bit c on, MSB first
RECURSIVE read_bits(_, _, _)
read_bits(buf, c, n) ==
    IF n = 0 THEN 0 ELSE 2 * read_bits(buf, c, n - 1) + Bit(buf, c + n - 1)

\* the match on the mpeg version bit
MPEGVersion(v) ==
    CASE v = 0 -> "MPEG4"
      [] v = 1 -> "MPEG2"
      [] OTHER -> "None"

MPEGAudioObjectType_shifted(c) ==
    CASE c = 0 -> "NULL"
      [] c = 1 -> "AAC_MAIN"
      [] c = 2 -> "AAC_LC"
      [] c = 3 -> "AAC_SSR"
      [] c = 4 -> "AAC_LTP"
      [] c = 5 -> "SBR"
      [] c = 6 -> "AAC_SCALABLE"
      [] c = 7 -> "TWIN_VQ"
      [] c = 31 -> "LAYER1"
      [] c = 32 -> "LAYER2"
      [] c = 33 -> "LAYER3"
      [] OTHER -> "None"

\* the match on the profile code
MPEGAudioObjectType(c) ==
    CASE c = 0 -> "AAC_MAIN"
      [] c = 1 -> "AAC_LC"
      [] c = 2 -> "AAC_SSR"
      [] c = 3 -> "AAC_LTP"
      [] c = 4 -> "SBR"
      [] c = 5 -> "AAC_SCALABLE"
      [] c = 6 -> "TWIN_VQ"
      [] c = 7 -> "CELP"
      [] c = 31 -> "LAYER1"
      [] c = 32 -> "LAYER2"
      [] c = 33 -> "LAYER3"
      [] OTHER -> "None"

\* struct ADTSHeader, with some = FALSE for Option::None
ADTSHeader(sw, id, pa, prof, sfi, fl) ==
    [some |-> TRUE, syncword |-> sw, id |-> id, protection_absent |-> pa,
     profile |-> prof, sampling_frequency_index |-> sfi, frame_length |-> fl]

NoHeader ==
    [some |-> FALSE, syncword |-> 0, id |-> "None", protection_absent |-> FALSE,
     profile |-> "None", sampling_frequency_index |-> 0, frame_length |-> 0]

peek_seek_back_max == 0 - ADTS_HDR_MAX_LEN

\* the offset of the seek that ends peek_header
peek_seek_back == 0 - ADTS_HDR_MIN_LEN

\* The fields of the 7-byte buffer in reading order; c.. are the positions
\* of the bit cursor before each read or skip.
decode_fields(buf) ==
    LET cSync    == 0
        cVersion == cSync + 12
        cLayer   == cVersion + 1
        cProt    == cLayer + 2
        cProfile == cProt + 1
        cSfi     == cProfile + 2
        cPrivate == cSfi + 4
        cChannel == cPrivate + 1
        cOrig    == cChannel + 3
        cHome    == cOrig + 1
        cCopyId  == cHome + 1
        cCopySt  == cCopyId + 1
        cLength  == cCopySt + 1
        cFull    == cLength + 13
        cBlocks  == cFull + 11
        cEnd     == cBlocks + 2
    IN  [syncword |-> read_bits(buf, cSync, 12),
         version |-> read_bits(buf, cVersion, 1),
         protection_absent |-> (read_bits(buf, cProt, 1) = 1),
         profile |-> read_bits(buf, cProfile, 2),
         sampling_frequency_index |-> read_bits(buf, cSfi, 4),
         frame_length |-> read_bits(buf, cLength, 13),
         bitsOk |-> (cEnd <= 8 * Len(buf))]

peek_header_restoring(f, p) ==
    LET rd == read_exact(f, p, ADTS_HDR_MIN_LEN) IN
    IF ~rd.ok THEN [hdr |-> NoHeader, pos |-> rd.pos]
    ELSE
    LET d == decode_fields(rd.buf)
        sk == seek_current(rd.pos, peek_seek_back)
    IN  IF d.syncword # 4095 THEN [hdr |-> NoHeader, pos |-> sk.pos]
        ELSE IF MPEGVersion(d.version) = "None" THEN [hdr |-> NoHeader, pos |-> sk.pos]
        ELSE IF MPEGAudioObjectType(d.profile) = "None" THEN [hdr |-> NoHeader, pos |-> sk.pos]
        ELSE IF ~d.bitsOk THEN [hdr |-> NoHeader, pos |-> sk.pos]
        ELSE IF ~sk.ok THEN [hdr |-> NoHeader, pos |-> sk.pos]
        ELSE [hdr |-> ADTSHeader(d.syncword, MPEGVersion(d.version),
                                 d.protection_absent, MPEGAudioObjectType(d.profile),
                                 d.sampling_frequency_index, d.frame_length),
              pos |-> sk.pos]

\* peek_header with the file at position p: the header or None, and the
\* position the call leaves the file at.  Every early return (None) leaves
\* the position where read_exact put it; only the last seek moves it back.
peek_header(f, p) ==
    LET rd == read_exact(f, p, ADTS_HDR_MIN_LEN) IN
    IF ~rd.ok THEN [hdr |-> NoHeader, pos |-> rd.pos]
    ELSE
    LET d == decode_fields(rd.buf)
        sk == seek_current(rd.pos, peek_seek_back)
    IN  IF d.syncword # 4095 THEN [hdr |-> NoHeader, pos |-> rd.pos]
        ELSE IF MPEGVersion(d.version) = "None" THEN [hdr |-> NoHeader, pos |-> rd.pos]
        ELSE IF MPEGAudioObjectType(d.profile) = "None" THEN [hdr |-> NoHeader, pos |-> rd.pos]
        ELSE IF ~d.bitsOk THEN [hdr |-> NoHeader, pos |-> rd.pos]
        ELSE IF ~sk.ok THEN [hdr |-> NoHeader, pos |-> sk.pos]
        ELSE [hdr |-> ADTSHeader(d.syncword, MPEGVersion(d.version),
                                 d.protection_absent, MPEGAudioObjectType(d.profile),
                                 d.sampling_frequency_index, d.frame_length),
              pos |-> sk.pos]

next_header_offset_from_read_end(h) == h.frame_length + ADTS_HDR_MIN_LEN

\* the offset of the seek to the next header in main
next_header_offset(h) == h.frame_length

----------------------------------------------------------------------------
(* Input files: the byte layout peek_header decodes, written out field by  *)
(* field, and the families of files the runs start from.                   *)

\* the w bits of v, most significant first
FieldBits(v, w) == [i \in 1..w |-> (v \div Pow2(w - i)) % 2]

\* 7 header bytes holding the 15 fields in the order peek_header reads them
PackHeader(sw, ver, layer, pa, prof, sfi, priv, chan, orig, home, cid, cst, fl, full, blocks) ==
    LET bits == FieldBits(sw, 12) \o FieldBits(ver, 1) \o FieldBits(layer, 2)
                \o FieldBits(pa, 1) \o FieldBits(prof, 2) \o FieldBits(sfi, 4)
                \o FieldBits(priv, 1) \o FieldBits(chan, 3) \o FieldBits(orig, 1)
                \o FieldBits(home, 1) \o FieldBits(cid, 1) \o FieldBits(cst, 1)
                \o FieldBits(fl, 13) \o FieldBits(full, 11) \o FieldBits(blocks, 2)
    IN  [k \in 1..(Len(bits) \div 8) |->
            128 * bits[8 * k - 7] + 64 * bits[8 * k - 6] + 32 * bits[8 * k - 5]
            + 16 * bits[8 * k - 4] + 8 * bits[8 * k - 3] + 4 * bits[8 * k - 2]
            + 2 * bits[8 * k - 1] + bits[8 * k]]

\* a header whose fields that peek_header skips are all zeros (ign = 0), all
\* ones before frame_length (1), all ones after it (2) or all ones (3)
Header(sw, ver, pa, prof, sfi, fl, ign) ==
    LET a == ign % 2
        b == ign \div 2
    IN  PackHeader(sw, ver, 3 * a, pa, prof, sfi, a, 7 * a, a, a, a, a, fl,
                   2047 * b, 3 * b)

Zeros(n) == [i \in 1..n |-> 0]

\* n bytes without a startcode pair: zeros, or 0xFF and 0x0F in turn
Noise(kind, n) ==
    [i \in 1..n |-> IF kind = 0 THEN 0 ELSE IF i % 2 = 1 THEN 255 ELSE 15]

NoFields ==
    [some |-> FALSE, at |-> 0, version |-> 0, protection_absent |-> 0,
     profile |-> 0, sampling_frequency_index |-> 0, frame_length |-> 0]

SfiValues == {0, 4, 15}
FrameLengths == {0, 6, 7, 9, 4097, 8191}
WalkLengths == {0, 6, 7, 8, 9}
Syncwords == {4095, 4094, 2047}
SecondBytes == {241, 255, 239}

\* noise, a candidate pair, more noise, possibly a second pair, noise
ScanFiles ==
    {Noise(kind, n) \o <<255, b2>> \o Noise(kind, m)
       \o (IF two THEN <<255, 240>> ELSE <<>>) \o Noise(0, t) :
       kind \in 0..1, n \in 0..MaxNoise, b2 \in SecondBytes, m \in 0..MaxGap,
       two \in BOOLEAN, t \in 0..MaxTail}

InitScan ==
    /\ file \in ScanFiles
    /\ offset \in 0..MaxOffset
    /\ fields = NoFields

\* a few zeros, one header with chosen field values, a few zeros
InitHeader ==
    \E n \in 0..MaxOffset, t \in 0..(MaxPayload + 1),
       ver \in 0..1, pa \in 0..1, prof \in 0..3, sfi \in SfiValues,
       fl \in FrameLengths, ign \in 0..3 :
       /\ file = Zeros(n) \o Header(4095, ver, pa, prof, sfi, fl, ign) \o Zeros(t)
       /\ offset \in 0..MaxOffset
       /\ fields = [some |-> TRUE, at |-> n, version |-> ver,
                    protection_absent |-> pa, profile |-> prof,
                    sampling_frequency_index |-> sfi, frame_length |-> fl]

\* n zeros, a frame of declared length l1 with p1 payload bytes, a header
\* with syncword sw2 and declared length l2, then p2 + t zeros
WalkFile(n, l1, p1, sw2, l2, p2, t) ==
    Zeros(n) \o Header(4095, 0, 1, 1, 4, l1, 0) \o Zeros(p1)
    \o Header(sw2, 1, 0, 2, 3, l2, 3) \o Zeros(p2) \o Zeros(t)

WalkFields(n, l1) ==
    [some |-> TRUE, at |-> n, version |-> 0, protection_absent |-> 1,
     profile |-> 1, sampling_frequency_index |-> 4, frame_length |-> l1]

\* a few zeros, a frame, then a second frame or bytes that are no header
InitWalk ==
    \E n \in 0..MaxOffset, l1 \in WalkLengths, p1 \in 0..MaxPayload,
       sw2 \in Syncwords, l2 \in WalkLengths, p2 \in 0..MaxPayload,
       t \in 0..MaxPayload :
       /\ file = WalkFile(n, l1, p1, sw2, l2, p2, t)
       /\ offset \in 0..MaxOffset
       /\ fields = WalkFields(n, l1)

NoReport == [some |-> FALSE, pos |-> 0, len |-> 0]

\* main after the file is opened: position 0, nothing found or decoded yet
Init ==
    /\ (InitScan \/ InitHeader \/ InitWalk)
    /\ pos = 0
    /\ pc = "start"
    /\ startcode = NoneIdx
    /\ err = ""
    /\ failed = ""
    /\ header = NoHeader
    /\ peekAt = NoneIdx
    /\ prev = NoReport

----------------------------------------------------------------------------
(* main *)

\* file.seek(SeekFrom::Current(opts.offset)), exit on failure
SeekOffset ==
    /\ pc = "start"
    /\ LET sk == seek_current(pos, offset) IN
       /\ pos' = sk.pos
       /\ err' = sk.err
       /\ pc' = IF sk.ok THEN "scan" ELSE "exit"
       /\ failed' = IF sk.ok THEN "" ELSE "seek_offset"
    /\ UNCHANGED <<file, offset, startcode, header, peekAt, prev, fields>>

\* one iteration of the loop of seek_startcode, called from main
ScanWindow ==
    /\ pc = "scan"
    /\ LET r == seek_startcode_iter(file, pos) IN
       /\ pos' = r.pos
       /\ err' = r.err
       /\ startcode' = r.ret
       /\ pc' = CASE r.kind = "continue" -> "scan"
                  [] r.kind = "return" -> "found"
                  [] OTHER -> "exit"
       /\ failed' = IF r.kind = "err" THEN "seek_startcode" ELSE ""
    /\ UNCHANGED <<file, offset, header, peekAt, prev, fields>>

\* the Ok arm of the match on seek_startcode: print the offset, enter the loop
Found ==
    /\ pc = "found"
    /\ pc' = "peek"
    /\ UNCHANGED <<file, offset, pos, startcode, err, failed, header, peekAt, prev, fields>>

\* peek_header called from the loop of main, exit on None
PeekHeader ==
    /\ pc = "peek"
    /\ LET r == peek_header(file, pos) IN
       /\ pos' = r.pos
       /\ header' = r.hdr
       /\ pc' = IF r.hdr.some THEN "advance" ELSE "exit"
       /\ failed' = IF r.hdr.some THEN "" ELSE "peek_header"
    /\ peekAt' = pos
    /\ UNCHANGED <<file, offset, startcode, err, prev, fields>>

\* the rest of the loop body: print position and fields, seek to the next header
Advance ==
    /\ pc = "advance"
    /\ LET cur == seek_current(pos, 0)
           sk == seek_current(cur.pos, next_header_offset(header))
       IN  /\ prev' = [some |-> TRUE, pos |-> cur.pos, len |-> header.frame_length]
           /\ pos' = sk.pos
           /\ err' = sk.err
           /\ pc' = IF sk.ok THEN "peek" ELSE "exit"
           /\ failed' = IF sk.ok THEN "" ELSE "seek_next"
    /\ UNCHANGED <<file, offset, startcode, header, peekAt, fields>>

Next == SeekOffset \/ ScanWindow \/ Found \/ PeekHeader \/ Advance

Spec == Init /\ [][Next]_vars

\* the files of InitWalk that start with the first frame, read from offset 0
InitLoop ==
    /\ \E l1 \in WalkLengths, p1 \in 0..MaxPayload, sw2 \in Syncwords,
          l2 \in WalkLengths :
          /\ file = WalkFile(0, l1, p1, sw2, l2, 0, 0)
          /\ fields = WalkFields(0, l1)
    /\ offset = 0
    /\ pos = 0
    /\ pc = "start"
    /\ startcode = NoneIdx
    /\ err = ""
    /\ failed = ""
    /\ header = NoHeader
    /\ peekAt = NoneIdx
    /\ prev = NoReport

\* main is sequential code that keeps running until it exits
FairSpec == InitLoop /\ [][Next]_vars /\ WF_vars(Next)

TypeOK ==
    /\ pc \in {"start", "scan", "found", "peek", "advance", "exit"}
    /\ pos \in Nat
    /\ \A i \in 1..Len(file) : file[i] \in 0..255
    /\ err \in {"", "UnexpectedEof", "InvalidInput"}

----------------------------------------------------------------------------
(* Properties *)

\* the offsets k >= s of the file at which a byte 0xFF is followed by a byte
\* with its four high bits set
PairOffsets(f, s) ==
    {k \in s..(Len(f) - 2) : f[k + 1] = 255 /\ f[k + 2] >= 240}

FirstPair(f, s) == CHOOSE k \in PairOffsets(f, s) : \A j \in PairOffsets(f, s) : k <= j

\* the 7 bytes the last peek_header read
PeekedBytes == SubSeq(file, peekAt + 1, peekAt + ADTS_HDR_MIN_LEN)

\* C1: when seek_startcode returns, it returns the offset of the first
\* startcode pair at or after the position the scan started at, whatever the
\* distance between the two.
C1_ReturnsFirstStartcode ==
    pc = "found" => startcode = FirstPair(file, offset)

\* C2: after peek_header returned a header the file is back at the position
\* of the call, and a second call there returns the same header and leaves
\* the position there again.
C2_PeekIdempotent ==
    pc = "advance" =>
        /\ header.some
        /\ pos = peekAt
        /\ peek_header(file, pos).hdr = header
        /\ peek_header(file, pos).pos = peekAt

C2_Witness ==
    /\ pc = "advance"
    /\ peekAt > 0
    /\ header.frame_length >= ADTS_HDR_MIN_LEN
    /\ header.id = "MPEG2"

\* C3: no header with a frame_length below the 7 bytes of a header is ever
\* returned by peek_header.
C3_ShortFrameLengthRejected ==
    header.some => header.frame_length >= ADTS_HDR_MIN_LEN

\* C4: a header reported at position p with frame_length L is followed by a
\* peek at exactly p + L, p being the position of the header's first byte.
C4_NextPeekAtFrameLength ==
    /\ (pc = "peek" /\ prev.some) =>
          /\ prev.pos = peekAt
          /\ prev.len = header.frame_length
          /\ pos = prev.pos + prev.len
    /\ (pc \in {"advance", "exit"} /\ prev.some) =>
          peekAt = prev.pos + prev.len

C4_Witness ==
    /\ pc = "advance"
    /\ prev.some
    /\ prev.len > ADTS_HDR_MIN_LEN
    /\ peekAt = prev.pos + prev.len

\* C5: on every file the walk eventually stops.
C5_WalkTerminates == <>(pc = "exit")

\* C6 as stated: a scan that read whole windows up to the end of a stream
\* without any startcode pair fails with something else than the failure of
\* a short read.
C6_NotFoundIsDistinct ==
    (failed = "seek_startcode" /\ PairOffsets(file, offset) = {}
        /\ offset + ADTS_HDR_MAX_LEN <= Len(file))
    => err # "UnexpectedEof"

\* C6 amended: every failure of seek_startcode is the UnexpectedEof of a
\* read_exact that found fewer than 9 bytes, also when the stream holds no
\* startcode pair; no value is returned.
C6_ScanFailsWithShortRead ==
    failed = "seek_startcode" =>
        /\ err = "UnexpectedEof"
        /\ startcode = NoneIdx
        /\ pos >= Len(file)

C6_Witness ==
    /\ failed = "seek_startcode"
    /\ PairOffsets(file, offset) = {}
    /\ offset + 2 * ADTS_HDR_MAX_LEN <= Len(file)

\* C7: when seek_startcode returns r, the file is at position r, r is not
\* before the start of the scan and the two bytes at r are a startcode pair.
C7_ReturnedOffsetIsStartcode ==
    pc = "found" =>
        /\ pos = startcode
        /\ startcode >= offset
        /\ startcode \in PairOffsets(file, offset)

C7_Witness ==
    /\ pc = "found"
    /\ startcode >= offset + ADTS_HDR_MAX_LEN
    /\ file[1] = 255

\* the names of the four profile codes of an ADTS header
ProfileName(code) == <<"AAC_MAIN", "AAC_LC", "AAC_SSR", "AAC_LTP">>[code + 1]

\* the header peek_header returned is the one packed into the file
FirstHeaderDecoded ==
    /\ pc = "advance"
    /\ fields.some
    /\ peekAt = fields.at
    /\ fields.frame_length >= ADTS_HDR_MIN_LEN

\* C8: decoding the 7 bytes packed from chosen field values gives back the
\* version, protection_absent, profile, sampling_frequency_index and
\* frame_length that were packed, whatever the skipped fields hold.
C8_RoundTrip ==
    FirstHeaderDecoded =>
        /\ header.syncword = 4095
        /\ header.id = (IF fields.version = 0 THEN "MPEG4" ELSE "MPEG2")
        /\ header.protection_absent = (fields.protection_absent = 1)
        /\ header.profile = ProfileName(fields.profile)
        /\ header.sampling_frequency_index = fields.sampling_frequency_index
        /\ header.frame_length = fields.frame_length

C8_Witness ==
    /\ FirstHeaderDecoded
    /\ fields.version = 1
    /\ fields.protection_absent = 0
    /\ fields.profile = 3
    /\ fields.sampling_frequency_index = 15
    /\ fields.frame_length = 4097
    /\ file[fields.at + ADTS_HDR_MIN_LEN] = 255

\* C9: a window without a match read at offset w is followed by a window
\* read at offset w + 5.
C9_WindowsOverlap ==
    [][(pc = "scan" /\ pc' = "scan") => pos' = pos + (ADTS_HDR_MAX_LEN - 4)]_vars

\* C10 as stated: after a peek_header that read its 7 bytes and then
\* returned None the file is at the position of the call.
C10_FailedPeekRestores ==
    (failed = "peek_header" /\ peekAt + ADTS_HDR_MIN_LEN <= Len(file))
    => pos = peekAt

\* C10 amended: a peek_header that read its 7 bytes and then returned None
\* did so for a syncword other than 0xFFF and leaves the file 7 bytes after
\* the position of the call; a call that returns a header leaves it at the
\* position of the call.
C10_FailedPeekConsumes ==
    /\ (failed = "peek_header" /\ peekAt + ADTS_HDR_MIN_LEN <= Len(file)) =>
          /\ pos = peekAt + ADTS_HDR_MIN_LEN
          /\ decode_fields(PeekedBytes).syncword # 4095
    /\ pc = "advance" => pos = peekAt

C10_Witness ==
    /\ failed = "peek_header"
    /\ peekAt + ADTS_HDR_MIN_LEN <= Len(file)
    /\ decode_fields(PeekedBytes).syncword = 4094

====
